---- MODULE Spec2Model ----
(***************************************************************************)
(* Model of the conversational orchestrator (backend/modules/routes/ai.py, *)
(* ai_chat) and of the vector store (backend/modules/services/             *)
(* embedding_service.py, EmbeddingService) of gm_v4.                        *)
(*                                                                         *)
(* Spec      : one client talking to ai_chat, turn after turn.             *)
(* StoreSpec : one request worker using EmbeddingService on the table.     *)
(* ConcSpec  : two request workers vectorizing documents at the same time. *)
(* EventSpec : events created, vectorized and deleted (routes/events.py).  *)
(* SearchSpec: EmbeddingService.search called on tables of a few rows.     *)
(* ChunkSpec : EmbeddingService.chunk_text called on texts given word by   *)
(*             word.                                                       *)
(***************************************************************************)
EXTENDS Integers, Sequences, FiniteSets, TLC

VARIABLES
    \* ---- ai_chat, one request at a time -------------------------------
    pc,          \* position of the handler
    request,     \* the JSON payload of the request being served
    contents,    \* messages in the provider's format (ai.py:154-160)
    attempt,     \* loop variable of "for attempt in range(max_retries)"
    posts,       \* number of requests.post calls made in this turn
    received,    \* what each post of this turn produced, in order
    sleeps,      \* arguments of the time.sleep calls of this turn, in order
    response,    \* what ai_chat returned (status code and JSON body)
    turn,        \* number of requests the client has sent
    \* ---- the caller (frontend) ----------------------------------------
    draft,       \* the draft event / form state
    pending,     \* function calls received and not yet applied
    \* ---- the embeddings table and the request workers -----------------
    embeddings,  \* rows of table embeddings
    nextId,      \* number of ids generate_uuid has handed out
    worker,      \* per worker: the EmbeddingService call it is in
    \* ---- the events table ---------------------------------------------
    events,      \* per event id: absent, live, or deleted (deleted_at set)
    \* ---- calls of EmbeddingService.search ------------------------------
    searching,   \* the search call: its arguments and what it returned
    \* ---- calls of EmbeddingService.chunk_text --------------------------
    chunked      \* the chunk_text call: its arguments and what it returned

chatVars == <<pc, request, contents, attempt, posts, received, sleeps, response, turn>>
clientVars == <<draft, pending>>
storeVars == <<embeddings, nextId, worker>>
otherVars == <<events, searching, chunked>>
vars == <<pc, request, contents, attempt, posts, received, sleeps, response, turn,
          draft, pending, embeddings, nextId, worker, events, searching, chunked>>

(***************************************************************************)
(* Bounds of the model.                                                    *)
(***************************************************************************)
MaxParts == 2     \* parts in one candidate of the provider's answer
MaxTurns == 2     \* chat requests in one behaviour
MaxRows  == 4     \* rows ever inserted into table embeddings
MaxSearchRows == 3     \* rows of a table handed to search
MaxWords == 50         \* words of a text handed to chunk_text

(***************************************************************************)
(* ai_chat: constants of the handler.                                      *)
(***************************************************************************)
max_retries == 3

COLORS == {"#3B82F6", "#10B981", "#EF4444", "#F97316", "#8B5CF6", "#F59E0B", "#EC4899"}
RECURRENCE_OPTIONS == {"none", "daily", "weekly", "monthly", "yearly"}
REMINDER_OPTIONS == {0, 5, 10, 15, 30, 60, 120, 1440}

RateLimitError == "Troppe richieste. Aspetta 30 secondi e riprova."
GenericError == "Si e' verificato un errore. Riprova."
NoMessagesError == "No messages provided"
NoResponseError == "No response from AI"

None == "None"

\* The fields of the draft that the model tracks (of the nine that
\* update_event_details declares; the other three are free strings like title).
Fields == {"title", "amount", "category_id", "recurrence", "reminders", "color"}

\* A field value is <<>> (null / not collected) or <<v>>.
EmptyForm == [f \in Fields |-> <<>>]

\* Categories the frontend sends with every request.
Categories == << [id |-> "cat1", name |-> "Casa", icon |-> "H"] >>

\* Message lists a request may carry.  The role of a message is whatever
\* string the caller put in the JSON: "ai" and "user" as in the test payload,
\* or "assistant" as the conversation turn's role is named elsewhere.
MessageLists ==
    { <<>>,
      << [role |-> "user", content |-> "bolletta gas 100 euro"] >>,
      << [role |-> "ai", content |-> "Ciao! Come posso aiutarti?"],
         [role |-> "user", content |-> "salva"] >>,
      << [role |-> "user", content |-> "ciao"],
         [role |-> "assistant", content |-> "Ciao! Come posso aiutarti?"],
         [role |-> "user", content |-> "salva"] >> }

\* JSON bodies of a request: an object (whose "messages" is the list, and is
\* the empty list when the key is absent, null or []), or the JSON value null.
Bodies == {"object", "null"}

\* functionCall objects the provider may emit.  The provider is free to emit
\* values outside the declared enumerations.
FunctionCalls ==
    { [name |-> "update_event_details", args |-> [amount |-> 50]],
      [name |-> "update_event_details",
       args |-> [title |-> "Bolletta gas", color |-> "#3B82F6", reminders |-> <<60, 1440>>]],
      [name |-> "update_event_details",
       args |-> [category_id |-> "cat9", color |-> "#000000", recurrence |-> "hourly",
                 reminders |-> <<7>>]],
      [name |-> "save_and_close_event", args |-> <<>>] }

TextParts == { [text |-> "Va bene cosi?"] }

Parts == TextParts \cup { [functionCall |-> fc] : fc \in FunctionCalls }

RECURSIVE SeqsUpTo(_, _)
SeqsUpTo(S, n) ==
    IF n = 0 THEN { <<>> }
    ELSE LET shorter == SeqsUpTo(S, n - 1)
         IN  shorter \cup { Append(s, x) : s \in { t \in shorter : Len(t) = n - 1 }, x \in S }

\* Answers with a first candidate: its content.parts.
Candidates == SeqsUpTo(Parts, MaxParts)

\* Kinds of requests.exceptions.RequestException the post / raise_for_status raise.
RequestExceptions == {"ReadTimeout", "HTTPError 503"}

(***************************************************************************)
(* ai_chat: helpers.                                                       *)
(***************************************************************************)
\* ai.py:153-160
TransformMessages(messages) ==
    [i \in 1..Len(messages) |->
        [role  |-> IF messages[i].role = "ai" THEN "model" ELSE "user",
         parts |-> << [text |-> messages[i].content] >>]]

\* What one requests.post of the loop produced.
Outcome(kind, exc, parts) == [kind |-> kind, exc |-> exc, parts |-> parts]

WaitTimeFixed(a) == 2

\* ai.py:393
WaitTime(a) == (2 ^ a) * 2

RetryAllowedOffByOne(a) == a < max_retries

\* ai.py:395 and ai.py:440
RetryAllowed(a) == a < max_retries - 1

RequestExceptionSleepBackoff(a) == WaitTime(a)

\* ai.py:441
RequestExceptionSleep(a) == 2

\* An extraction that keeps the first function call only.
ExtractFirstFunctionCall(parts) ==
    LET calls == SelectSeq(parts, LAMBDA p : "functionCall" \in DOMAIN p)
    IN  IF calls = <<>> THEN <<>> ELSE << calls[1].functionCall >>

\* ai.py:414-419
RECURSIVE ExtractFunctionCalls(_)
ExtractFunctionCalls(parts) ==
    IF parts = <<>> THEN <<>>
    ELSE IF "functionCall" \in DOMAIN Head(parts)
         THEN <<Head(parts).functionCall>> \o ExtractFunctionCalls(Tail(parts))
         ELSE ExtractFunctionCalls(Tail(parts))

\* ai.py:422-427
RECURSIVE ExtractText(_)
ExtractText(parts) ==
    IF parts = <<>> THEN ""
    ELSE IF "text" \in DOMAIN Head(parts)
         THEN Head(parts).text
         ELSE ExtractText(Tail(parts))

ErrorResponse(status, error, details) ==
    [status |-> status, error |-> error, details |-> details,
     text |-> None, function_calls |-> <<>>]

\* ai.py:431-435
SuccessResponse(parts) ==
    [status |-> 200, error |-> None, details |-> None,
     text |-> ExtractText(parts), function_calls |-> ExtractFunctionCalls(parts)]

NoResponse == [status |-> 0, error |-> None, details |-> None,
               text |-> None, function_calls |-> <<>>]

(***************************************************************************)
(* ai_chat: the handler, step by step.                                     *)
(***************************************************************************)
\* A handler whose count and record of provider calls live on from one request
\* to the next.
ReceiveRequestKeepsCalls ==
    /\ pc = "awaiting"
    /\ pending = <<>>
    /\ turn < MaxTurns
    /\ \E b \in Bodies, m \in MessageLists :
         /\ b = "null" => m = <<>>
         /\ request' = [body |-> b, messages |-> m, categories |-> Categories,
                        form_state |-> draft]
    /\ turn' = turn + 1
    /\ pc' = "received"
    /\ contents' = <<>>
    /\ attempt' = 0
    /\ sleeps' = <<>>
    /\ response' = NoResponse
    /\ UNCHANGED <<posts, received, clientVars, storeVars, otherVars>>

\* The client posts /chat with its message list and its current form state.
ReceiveRequest ==
    /\ pc = "awaiting"
    /\ pending = <<>>
    /\ turn < MaxTurns
    /\ \E b \in Bodies, m \in MessageLists :
         /\ b = "null" => m = <<>>
         /\ request' = [body |-> b, messages |-> m, categories |-> Categories,
                        form_state |-> draft]
    /\ turn' = turn + 1
    /\ pc' = "received"
    /\ contents' = <<>>
    /\ attempt' = 0
    /\ posts' = 0
    /\ received' = <<>>
    /\ sleeps' = <<>>
    /\ response' = NoResponse
    /\ UNCHANGED <<clientVars, storeVars, otherVars>>

\* ai.py:119-120, 445-447: the body is not an object, data.get raises
\* AttributeError and the outer handler answers 500
RejectBody ==
    /\ pc = "received"
    /\ request.body = "null"
    /\ response' = ErrorResponse(500, GenericError, "AttributeError")
    /\ pc' = "done"
    /\ UNCHANGED <<request, contents, attempt, posts, received, sleeps, turn,
                   clientVars, storeVars, otherVars>>

\* ai.py:125-126
RejectEmpty ==
    /\ pc = "received"
    /\ request.body = "object"
    /\ request.messages = <<>>
    /\ response' = ErrorResponse(400, NoMessagesError, None)
    /\ pc' = "done"
    /\ UNCHANGED <<request, contents, attempt, posts, received, sleeps, turn,
                   clientVars, storeVars, otherVars>>

\* ai.py:128-383: context, contents, tool declarations, payload
BuildContext ==
    /\ pc = "received"
    /\ request.messages # <<>>
    /\ contents' = TransformMessages(request.messages)
    /\ attempt' = 0
    /\ pc' = "calling"
    /\ UNCHANGED <<request, posts, received, sleeps, response, turn,
                   clientVars, storeVars, otherVars>>

\* ai.py:389-402: the post answers 429
Provider429 ==
    /\ pc = "calling"
    /\ posts' = posts + 1
    /\ received' = Append(received, Outcome("429", "", <<>>))
    /\ IF RetryAllowed(attempt)
       THEN /\ sleeps' = Append(sleeps, WaitTime(attempt))
            /\ pc' = "sleeping"
            /\ UNCHANGED response
       ELSE /\ response' = ErrorResponse(429, RateLimitError, "Rate limit Gemini API raggiunto.")
            /\ pc' = "done"
            /\ UNCHANGED sleeps
    /\ UNCHANGED <<request, contents, attempt, turn, clientVars, storeVars, otherVars>>

\* A handler that remembers an earlier 429: when the retries are used up by a
\* RequestException it still answers "rate limited" if any attempt got 429.
ProviderRequestExceptionRemembers429 ==
    /\ pc = "calling"
    /\ \E e \in RequestExceptions :
         /\ posts' = posts + 1
         /\ received' = Append(received, Outcome("RequestException", e, <<>>))
         /\ IF RetryAllowed(attempt)
            THEN /\ sleeps' = Append(sleeps, RequestExceptionSleep(attempt))
                 /\ pc' = "sleeping"
                 /\ UNCHANGED response
            ELSE /\ response' =
                        IF \E i \in 1..Len(received) : received[i].kind = "429"
                        THEN ErrorResponse(429, RateLimitError,
                                           "Rate limit Gemini API raggiunto.")
                        ELSE ErrorResponse(500, GenericError, e)
                 /\ pc' = "done"
                 /\ UNCHANGED sleeps
    /\ UNCHANGED <<request, contents, attempt, turn, clientVars, storeVars, otherVars>>

\* ai.py:389, 404, 438-447: the post or raise_for_status raises a RequestException
ProviderRequestException ==
    /\ pc = "calling"
    /\ \E e \in RequestExceptions :
         /\ posts' = posts + 1
         /\ received' = Append(received, Outcome("RequestException", e, <<>>))
         /\ IF RetryAllowed(attempt)
            THEN /\ sleeps' = Append(sleeps, RequestExceptionSleep(attempt))
                 /\ pc' = "sleeping"
                 /\ UNCHANGED response
            ELSE /\ response' = ErrorResponse(500, GenericError, e)
                 /\ pc' = "done"
                 /\ UNCHANGED sleeps
    /\ UNCHANGED <<request, contents, attempt, turn, clientVars, storeVars, otherVars>>

\* ai.py:405-410, 445-447: the body is JSON null, so "'candidates' in result"
\* raises TypeError, which only the outer handler catches
ProviderUnexpectedError ==
    /\ pc = "calling"
    /\ posts' = posts + 1
    /\ received' = Append(received, Outcome("TypeError", "TypeError", <<>>))
    /\ response' = ErrorResponse(500, GenericError, "TypeError")
    /\ pc' = "done"
    /\ UNCHANGED <<request, contents, attempt, sleeps, turn, clientVars, storeVars, otherVars>>

\* ai.py:410, 436-437: 200 without candidates
ProviderNoCandidates ==
    /\ pc = "calling"
    /\ posts' = posts + 1
    /\ received' = Append(received, Outcome("no candidates", "", <<>>))
    /\ response' = ErrorResponse(500, NoResponseError, None)
    /\ pc' = "done"
    /\ UNCHANGED <<request, contents, attempt, sleeps, turn, clientVars, storeVars, otherVars>>

\* A handler that carries out the update_event_details calls itself: it writes
\* their arguments into the draft.
ProviderSuccessExecutes ==
    /\ pc = "calling"
    /\ \E parts \in Candidates :
         /\ received' = Append(received, Outcome("candidates", "", parts))
         /\ response' = SuccessResponse(parts)
         /\ draft' = [f \in Fields |->
                IF \E i \in 1..Len(parts) :
                      /\ "functionCall" \in DOMAIN parts[i]
                      /\ parts[i].functionCall.name = "update_event_details"
                      /\ f \in DOMAIN parts[i].functionCall.args
                THEN <<"written by ai_chat">> ELSE draft[f]]
    /\ posts' = posts + 1
    /\ pc' = "done"
    /\ UNCHANGED <<request, contents, attempt, sleeps, turn, pending, storeVars, otherVars>>

\* ai.py:410-435: 200 with a first candidate
ProviderSuccess ==
    /\ pc = "calling"
    /\ \E parts \in Candidates :
         /\ received' = Append(received, Outcome("candidates", "", parts))
         /\ response' = SuccessResponse(parts)
    /\ posts' = posts + 1
    /\ pc' = "done"
    /\ UNCHANGED <<request, contents, attempt, sleeps, turn, clientVars, storeVars, otherVars>>

\* A loop that runs one iteration short: after the second sleep it is over.
WakeShortLoop ==
    /\ pc = "sleeping"
    /\ attempt' = attempt + 1
    /\ pc' = IF attempt + 1 < max_retries - 1 THEN "calling" ELSE "fell through"
    /\ UNCHANGED <<request, contents, posts, received, sleeps, response, turn,
                   clientVars, storeVars, otherVars>>

\* time.sleep returns and the for loop goes to its next iteration
\* (ai.py:387, 397, 441)
Wake ==
    /\ pc = "sleeping"
    /\ attempt' = attempt + 1
    /\ pc' = IF attempt + 1 < max_retries THEN "calling" ELSE "fell through"
    /\ UNCHANGED <<request, contents, posts, received, sleeps, response, turn,
                   clientVars, storeVars, otherVars>>

(***************************************************************************)
(* The caller: takes the answer and applies the requested actions.         *)
(***************************************************************************)
ApplyUpdateReset(form, args) ==
    [f \in Fields |-> IF f \in DOMAIN args THEN <<args[f]>> ELSE <<>>]

ApplyUpdate(form, args) ==
    [f \in Fields |-> IF f \in DOMAIN args THEN <<args[f]>> ELSE form[f]]

ApplyAction(form, fc) ==
    IF fc.name = "update_event_details" THEN ApplyUpdate(form, fc.args) ELSE form

TakeResponse ==
    /\ pc = "done"
    /\ pending' = response.function_calls
    /\ pc' = "awaiting"
    /\ UNCHANGED <<request, contents, attempt, posts, received, sleeps, response, turn,
                   draft, storeVars, otherVars>>

ClientApply ==
    /\ pc = "awaiting"
    /\ pending # <<>>
    /\ draft' = ApplyAction(draft, Head(pending))
    /\ pending' = Tail(pending)
    /\ UNCHANGED <<chatVars, storeVars, otherVars>>

(***************************************************************************)
(* EmbeddingService and table embeddings.                                  *)
(*                                                                         *)
(* A text is abstracted to a tag and its number of whitespace-separated    *)
(* words; a chunk is the span of words it holds.  Every execute_query runs *)
(* on its own autocommit connection, so each statement is one step.        *)
(***************************************************************************)
Workers == {1, 2}

DocIds == {"d1"}
EventIds == {"e1"}

\* Defaults of chunk_text (embedding_service.py:63) and its floor (:80).
DefaultChunkSize == 500
DefaultOverlap == 50
MinChunkWords == 20

Text(tag, n) == [tag |-> tag, from |-> 0, nwords |-> n]

\* Document texts: a short one and one of two chunks.
DocTexts == { Text("A", 12), Text("B", 600) }

\* Event payloads handed to vectorize_event.
EventDatas ==
    { [title |-> "Piscina", description |-> "", location |-> "", start_datetime |-> "",
       category_name |-> ""],
      [title |-> "Piscina", description |-> "Nuoto libero", location |-> "",
       start_datetime |-> "2025-10-24 18:00:00", category_name |-> "Sport"] }

Min(a, b) == IF a <= b THEN a ELSE b

\* range(0, n, step), embedding_service.py:78
Range0(n, step) == [k \in 1..((n + step - 1) \div step) |-> (k - 1) * step]

\* embedding_service.py:62-83
chunk_text(text, chunk_size, overlap) ==
    IF text.nwords <= chunk_size
    THEN << text >>
    ELSE LET starts == Range0(text.nwords, chunk_size - overlap)
             windows == [k \in 1..Len(starts) |->
                            [tag    |-> text.tag,
                             from   |-> text.from + starts[k],
                             nwords |-> Min(chunk_size, text.nwords - starts[k])]]
         IN  SelectSeq(windows, LAMBDA c : c.nwords > MinChunkWords)

\* embedding_service.py:186-204: the labelled parts that are present, joined
EventText(event_data) ==
    LET part(label, key) == IF event_data[key] # "" THEN << <<label, event_data[key]>> >> ELSE <<>>
        parts == part("Titolo", "title") \o part("Descrizione", "description")
                 \o part("Luogo", "location") \o part("Data", "start_datetime")
                 \o part("Categoria", "category_name")
    IN  [tag |-> parts, from |-> 0, nwords |-> Len(parts)]

(***************************************************************************)
(* Embedding vectors.  A normalized component is kept in fifths: <<3, 4>>  *)
(* is the unit vector (0.6, 0.8), and a similarity is in 25ths.            *)
(***************************************************************************)
Scale == 5

\* Vectors the provider returns (genai.embed_content, embedding_service.py:38-43),
\* before normalization; their norms are whole numbers, and one is zero.
ProviderVectors == << <<3, 4>>, <<8, 6>>, <<-6, 8>>, <<0, 0>> >>

\* The provider is a fixed function of the content and of the task type.
ProviderEmbedding(text, task_type) ==
    LET shift == IF task_type = "RETRIEVAL_QUERY" THEN 1 ELSE 0
    IN  ProviderVectors[((text.from + text.nwords + shift) % Len(ProviderVectors)) + 1]

ISqrt(n) == CHOOSE r \in 0..n : r * r <= n /\ (r + 1) * (r + 1) > n

\* np.linalg.norm, embedding_service.py:47
Norm(vector) == ISqrt(vector[1] * vector[1] + vector[2] * vector[2])

\* A create_embedding that returns the provider's vector as it is.
create_embedding_raw(text, task_type) == ProviderEmbedding(text, task_type)

\* embedding_service.py:25-51
create_embedding(text, task_type) ==
    LET vector == ProviderEmbedding(text, task_type)
        norm == Norm(vector)
    IN  IF norm > 0
        THEN [i \in DOMAIN vector |-> (vector[i] * Scale) \div norm]
        ELSE vector

\* embedding_service.py:57-60: np.dot
cosine_similarity(vec_a, vec_b) == vec_a[1] * vec_b[1] + vec_a[2] * vec_b[2]

Idle ==
    [op |-> "idle", status |-> "idle", source_type |-> None, source_id |-> None,
     chunks |-> <<>>, base |-> 0, i |-> 0, result |-> 0, began |-> 0, written |-> {}]

RowsOf(source_id) == { r \in embeddings : r.source_id = source_id }
Ids(rows) == { r.id : r \in rows }

\* A call enters EmbeddingService.  began: the number of rows inserted before the
\* call began; written: the ids save_embedding has returned to the call so far.
Call(op, source_type, source_id, chunks, base) ==
    [op |-> op, status |-> "running", source_type |-> source_type,
     source_id |-> source_id, chunks |-> chunks, base |-> base, i |-> 0, result |-> 0,
     began |-> nextId, written |-> {}]

\* embedding_service.py:147-157
StartVectorizeDocument(w) ==
    /\ worker[w].status = "idle"
    /\ \E d \in DocIds, t \in DocTexts :
         worker' = [worker EXCEPT ![w] =
            Call("vectorize_document", "document", d,
                 chunk_text(t, DefaultChunkSize, DefaultOverlap), 0)]
    /\ UNCHANGED <<embeddings, nextId, chatVars, clientVars, otherVars>>

\* embedding_service.py:176-210
StartVectorizeEvent(w) ==
    /\ worker[w].status = "idle"
    /\ \E e \in EventIds, ed \in EventDatas :
         worker' = [worker EXCEPT ![w] =
            Call("vectorize_event", "event", e, << EventText(ed) >>, 0)]
    /\ UNCHANGED <<embeddings, nextId, chatVars, clientVars, otherVars>>

\* embedding_service.py:85-105: save_embedding called directly
\* (as test_rag_system.py:42-47 does)
StartSaveEmbedding(w) ==
    /\ worker[w].status = "idle"
    /\ \E d \in DocIds, t \in DocTexts, ci \in {0, 1} :
         worker' = [worker EXCEPT ![w] = Call("save_embedding", "document", d, << t >>, ci)]
    /\ UNCHANGED <<embeddings, nextId, chatVars, clientVars, otherVars>>

\* embedding_service.py:119-138: INSERT INTO embeddings, under a fresh uuid
InsertRow(rows, id, source_type, source_id, chunk_index, text) ==
    rows \cup { [id |-> id, source_type |-> source_type, source_id |-> source_id,
                 chunk_index |-> chunk_index, text_content |-> text,
                 embedding_vector |-> create_embedding(text, "RETRIEVAL_DOCUMENT")] }

\* A DELETE that only removes the first chunk of the source.
DeleteRowsFirstChunk(rows, source_id) ==
    { r \in rows : ~(r.source_id = source_id /\ r.chunk_index = 0) }

\* embedding_service.py:301-302: DELETE FROM embeddings WHERE source_id = %s
DeleteRows(rows, source_id) == { r \in rows : r.source_id # source_id }

\* database.py:51-52: cursor.rowcount of a DELETE, the number of rows it removed
RowCount(before, after) == Cardinality(before) - Cardinality(after)

\* One save_embedding of the running call succeeds (embedding_service.py:106-141,
\* and the loop of vectorize_document, :160-170).
SaveOk(w) ==
    LET c == worker[w] IN
    /\ c.status = "running"
    /\ c.op \in {"vectorize_document", "vectorize_event", "save_embedding"}
    /\ c.i < Len(c.chunks)
    /\ nextId < MaxRows
    /\ nextId' = nextId + 1
    /\ embeddings' = InsertRow(embeddings, nextId + 1, c.source_type, c.source_id,
                               c.base + c.i, c.chunks[c.i + 1])
    /\ worker' = [worker EXCEPT ![w] =
          [c EXCEPT !.i = c.i + 1,
                    !.written = c.written \cup {nextId + 1},
                    !.status = IF c.i + 1 = Len(c.chunks) THEN "returned" ELSE "running",
                    !.result = IF c.op = "vectorize_document" THEN Len(c.chunks)
                               ELSE nextId + 1]]
    /\ UNCHANGED <<chatVars, clientVars, otherVars>>

\* One save_embedding of the running call raises: create_embedding failed, or the
\* INSERT failed and was rolled back (embedding_service.py:143-145, 172-174;
\* database.py:57-63).  Nothing is inserted and the exception leaves the call.
SaveRaises(w) ==
    LET c == worker[w] IN
    /\ c.status = "running"
    /\ c.op \in {"vectorize_document", "vectorize_event", "save_embedding"}
    /\ c.i < Len(c.chunks)
    /\ worker' = [worker EXCEPT ![w] = [c EXCEPT !.status = "raised"]]
    /\ UNCHANGED <<embeddings, nextId, chatVars, clientVars, otherVars>>

\* embedding_service.py:292-304
DeleteEmbeddingsForSource(w) ==
    /\ worker[w].status = "idle"
    /\ \E s \in DocIds \cup EventIds :
         /\ embeddings' = DeleteRows(embeddings, s)
         /\ worker' = [worker EXCEPT ![w] =
               [Call("delete_embeddings_for_source", None, s, <<>>, 0)
                  EXCEPT !.status = "returned",
                         !.result = RowCount(embeddings, DeleteRows(embeddings, s))]]
    /\ UNCHANGED <<nextId, chatVars, clientVars, otherVars>>

\* The call is over and the worker takes the next request.
Return(w) ==
    /\ worker[w].status \in {"returned", "raised"}
    /\ worker' = [worker EXCEPT ![w] = Idle]
    /\ UNCHANGED <<embeddings, nextId, chatVars, clientVars, otherVars>>

(***************************************************************************)
(* EmbeddingService.search (embedding_service.py:227-290).                 *)
(*                                                                         *)
(* The optional argument source_types is a sequence of no element (None)   *)
(* or of one element, the list given.                                      *)
(***************************************************************************)
SourceTypes == {"document", "event", "conversation"}

Elements(seq) == { seq[i] : i \in 1..Len(seq) }

\* embedding_service.py:249: "if source_types:" is false for None and for []
Truthy(source_types) == source_types # <<>> /\ source_types[1] # <<>>

\* embedding_service.py:249-264: the rows the SELECT returns
Select(rows, source_types) ==
    IF Truthy(source_types)
    THEN { r \in rows : r.source_type \in Elements(source_types[1]) }
    ELSE rows

\* The order in which the SELECT returns them (it has no ORDER BY): by id.
RECURSIVE ScanOrder(_)
ScanOrder(rows) ==
    IF rows = {} THEN <<>>
    ELSE LET r == CHOOSE x \in rows : \A y \in rows : x.id <= y.id
         IN  << r >> \o ScanOrder(rows \ {r})

\* embedding_service.py:268-280
Match(row, query_vector) ==
    [id |-> row.id, source_type |-> row.source_type, source_id |-> row.source_id,
     chunk_index |-> row.chunk_index, text |-> row.text_content,
     score |-> cosine_similarity(query_vector, row.embedding_vector)]

\* A sort into increasing score.
InsertAscending(sorted, m) ==
    LET p == Cardinality({ i \in 1..Len(sorted) : sorted[i].score <= m.score })
    IN  SubSeq(sorted, 1, p) \o << m >> \o SubSeq(sorted, p + 1, Len(sorted))

\* A decreasing sort that puts an element before the earlier ones of equal score.
InsertBeforeTies(sorted, m) ==
    LET p == Cardinality({ i \in 1..Len(sorted) : sorted[i].score > m.score })
    IN  SubSeq(sorted, 1, p) \o << m >> \o SubSeq(sorted, p + 1, Len(sorted))

\* list.sort(key=score, reverse=True) is stable: an element goes after the
\* earlier elements whose score is greater or equal (embedding_service.py:283).
InsertSorted(sorted, m) ==
    LET p == Cardinality({ i \in 1..Len(sorted) : sorted[i].score >= m.score })
    IN  SubSeq(sorted, 1, p) \o << m >> \o SubSeq(sorted, p + 1, Len(sorted))

RECURSIVE SortByScore(_)
SortByScore(matches) ==
    IF matches = <<>> THEN <<>>
    ELSE InsertSorted(SortByScore(SubSeq(matches, 1, Len(matches) - 1)),
                      matches[Len(matches)])

Max(a, b) == IF a >= b THEN a ELSE b

\* A slice that keeps one element more.
TakeOneMore(matches, top_k) ==
    IF top_k + 1 >= 0
    THEN SubSeq(matches, 1, Min(top_k + 1, Len(matches)))
    ELSE SubSeq(matches, 1, Max(0, Len(matches) + top_k + 1))

\* embedding_service.py:286: matches[:top_k], a Python slice
Take(matches, top_k) ==
    IF top_k >= 0
    THEN SubSeq(matches, 1, Min(top_k, Len(matches)))
    ELSE SubSeq(matches, 1, Max(0, Len(matches) + top_k))

\* embedding_service.py:244-286
search(rows, query, source_types, top_k) ==
    LET query_vector == create_embedding(query, "RETRIEVAL_QUERY")
        results == ScanOrder(Select(rows, source_types))
        matches == [k \in 1..Len(results) |-> Match(results[k], query_vector)]
    IN  Take(SortByScore(matches), top_k)

NoSearch ==
    [status |-> "idle", query |-> Text("", 0), source_types |-> <<>>, top_k |-> 0,
     matches |-> <<>>]

QueryTexts == { Text("Q", 2), Text("Q", 3) }

FilterArgs ==
    { <<>>, << <<>> >>, << <<"document">> >>, << <<"event">> >>,
      << <<"document", "event">> >>, << <<"conversation">> >> }

TopKs == (-1)..(MaxSearchRows + 1)

\* search returns its matches.
SearchReturns ==
    /\ searching.status = "idle"
    /\ \E q \in QueryTexts, st \in FilterArgs, k \in TopKs :
         searching' = [status |-> "returned", query |-> q, source_types |-> st,
                       top_k |-> k, matches |-> search(embeddings, q, st, k)]
    /\ UNCHANGED <<chatVars, clientVars, storeVars, events, chunked>>

\* create_embedding of the query or the SELECT fails and search raises
\* (embedding_service.py:288-290).
SearchRaises ==
    /\ searching.status = "idle"
    /\ \E q \in QueryTexts, st \in FilterArgs, k \in TopKs :
         searching' = [status |-> "raised", query |-> q, source_types |-> st,
                       top_k |-> k, matches |-> <<>>]
    /\ UNCHANGED <<chatVars, clientVars, storeVars, events, chunked>>

\* The caller has taken the outcome of the search.
SearchDone ==
    /\ searching.status # "idle"
    /\ searching' = NoSearch
    /\ UNCHANGED <<chatVars, clientVars, storeVars, events, chunked>>

(***************************************************************************)
(* EmbeddingService.chunk_text on a text given token by token             *)
(* (embedding_service.py:62-83).  A text is a sequence of tokens: k > 0 is *)
(* the k-th word of the text (a run of non-whitespace characters), 0 is a  *)
(* space and -1 another whitespace character (a newline).                  *)
(***************************************************************************)
Space == 0
Newline == 0 - 1

\* Texts of n words: separated by single spaces, separated by newlines, or
\* with a leading space and two spaces after every word.
MakeText(n, style) ==
    CASE style = "spaces" ->
            [i \in 1..(2 * n - 1) |-> IF i % 2 = 1 THEN (i + 1) \div 2 ELSE Space]
      [] style = "lines" ->
            [i \in 1..(2 * n - 1) |-> IF i % 2 = 1 THEN (i + 1) \div 2 ELSE Newline]
      [] style = "padded" ->
            [i \in 1..(3 * n + 1) |->
                IF i > 1 /\ (i - 2) % 3 = 0 THEN ((i - 2) \div 3) + 1 ELSE Space]

ChunkTexts == { MakeText(n, style) : n \in 0..MaxWords, style \in {"spaces", "lines", "padded"} }

\* Window sizes and overlaps chunk_text is called with.
ChunkSizes == {10, 25, 30}
Overlaps == {0, 5, 20}

\* str.split(), embedding_service.py:72
split(text) == SelectSeq(text, LAMBDA t : t > 0)

\* ' '.join(chunk_words), embedding_service.py:81
join(words) ==
    [i \in 1..(2 * Len(words) - 1) |-> IF i % 2 = 1 THEN words[(i + 1) \div 2] ELSE Space]

\* A floor that keeps a window of exactly MinChunkWords words.
KeptInclusive(chunk_words) == Len(chunk_words) >= MinChunkWords

\* embedding_service.py:80: if len(chunk_words) > 20
Kept(chunk_words) == Len(chunk_words) > MinChunkWords

\* embedding_service.py:78-83: the loop over the windows
Windows(words, chunk_size, overlap) ==
    LET starts == Range0(Len(words), chunk_size - overlap)
        chunk_words == [k \in 1..Len(starts) |->
                           SubSeq(words, starts[k] + 1, Min(starts[k] + chunk_size, Len(words)))]
        kept == SelectSeq(chunk_words, Kept)
    IN  [k \in 1..Len(kept) |-> join(kept[k])]

\* A chunk_text that returns the words of a short text joined again.
chunk_text_rejoined(text, chunk_size, overlap) ==
    IF Len(split(text)) <= chunk_size
    THEN << join(split(text)) >>
    ELSE Windows(split(text), chunk_size, overlap)

\* embedding_service.py:62-83
chunk_text_words(text, chunk_size, overlap) ==
    IF Len(split(text)) <= chunk_size
    THEN << text >>
    ELSE Windows(split(text), chunk_size, overlap)

NoChunking ==
    [status |-> "idle", text |-> <<>>, chunk_size |-> 1, overlap |-> 0, chunks |-> <<>>]

\* chunk_text is called with chunk_size > overlap >= 0 and returns.
ChunkTextReturns ==
    /\ chunked.status = "idle"
    /\ \E t \in ChunkTexts, cs \in ChunkSizes, ov \in Overlaps :
         /\ cs > ov
         /\ chunked' = [status |-> "returned", text |-> t, chunk_size |-> cs,
                        overlap |-> ov, chunks |-> chunk_text_words(t, cs, ov)]
    /\ UNCHANGED <<chatVars, clientVars, storeVars, events, searching>>

\* The caller has taken the chunks.
ChunkDone ==
    /\ chunked.status = "returned"
    /\ chunked' = NoChunking
    /\ UNCHANGED <<chatVars, clientVars, storeVars, events, searching>>

\* events.py:253-314: create_event inserts the event under a fresh uuid.
CreateEvent ==
    /\ \E e \in EventIds :
         /\ events[e] = "absent"
         /\ events' = [events EXCEPT ![e] = "live"]
    /\ UNCHANGED <<chatVars, clientVars, storeVars, searching, chunked>>

\* events.py:546-583: delete_event.  The event must be live (else the 404 of
\* :558-562, which changes nothing); the only write of the handler is
\* UPDATE events SET deleted_at = NOW() (:574-578).
DeleteEvent ==
    /\ \E e \in EventIds :
         /\ events[e] = "live"
         /\ events' = [events EXCEPT ![e] = "deleted"]
    /\ UNCHANGED <<chatVars, clientVars, storeVars, searching, chunked>>

\* The state after construction, but for the table embeddings.
InitOutsideTable ==
    /\ pc = "awaiting"
    /\ request = [body |-> "object", messages |-> <<>>, categories |-> Categories,
                  form_state |-> EmptyForm]
    /\ contents = <<>>
    /\ attempt = 0
    /\ posts = 0
    /\ received = <<>>
    /\ sleeps = <<>>
    /\ response = NoResponse
    /\ turn = 0
    /\ draft = EmptyForm
    /\ pending = <<>>
    /\ worker = [w \in Workers |-> Idle]
    /\ events = [e \in EventIds |-> "absent"]
    /\ searching = NoSearch
    /\ chunked = NoChunking

Init ==
    /\ InitOutsideTable
    /\ embeddings = {}
    /\ nextId = 0

\* Texts stored in the tables handed to search: one per provider vector.
SearchTexts == { Text("S", n) : n \in 1..Len(ProviderVectors) }

SourceIdOf(source_type) == IF source_type = "document" THEN "d1" ELSE "e1"

\* Tables of up to MaxSearchRows rows, as save_embedding leaves them.
RECURSIVE TablesOf(_)
TablesOf(n) ==
    IF n = 0 THEN { {} }
    ELSE { InsertRow(rows, n, ty, SourceIdOf(ty), 0, t) :
             rows \in TablesOf(n - 1), ty \in {"document", "event"}, t \in SearchTexts }

SearchTables == UNION { TablesOf(n) : n \in 0..MaxSearchRows }

SearchInit ==
    /\ InitOutsideTable
    /\ embeddings \in SearchTables
    /\ nextId = Cardinality(embeddings)

Next ==
    \/ ReceiveRequest
    \/ RejectBody
    \/ RejectEmpty
    \/ BuildContext
    \/ Provider429
    \/ ProviderRequestException
    \/ ProviderUnexpectedError
    \/ ProviderNoCandidates
    \/ ProviderSuccess
    \/ Wake
    \/ TakeResponse
    \/ ClientApply

Spec == Init /\ [][Next]_vars

\* The steps of the handler itself.  A request being served keeps running: the
\* post has a timeout (ai.py:389), so it answers or raises, and time.sleep
\* returns.
HandlerStep ==
    \/ RejectBody
    \/ RejectEmpty
    \/ BuildContext
    \/ Provider429
    \/ ProviderRequestException
    \/ ProviderUnexpectedError
    \/ ProviderNoCandidates
    \/ ProviderSuccess
    \/ Wake

LiveSpec == Init /\ [][Next]_vars /\ WF_vars(HandlerStep)

\* One worker serving EmbeddingService calls one after the other.
StoreNext ==
    \/ StartVectorizeDocument(1)
    \/ StartVectorizeEvent(1)
    \/ StartSaveEmbedding(1)
    \/ SaveOk(1)
    \/ SaveRaises(1)
    \/ DeleteEmbeddingsForSource(1)
    \/ Return(1)

StoreSpec == Init /\ [][StoreNext]_vars

\* Two workers vectorizing documents at the same time.
ConcNext ==
    \E w \in Workers :
        \/ StartVectorizeDocument(w)
        \/ SaveOk(w)
        \/ SaveRaises(w)
        \/ Return(w)

ConcSpec == Init /\ [][ConcNext]_vars

\* Vectorize operations only, one after the other, every save succeeding.
VectorizeNext ==
    \/ StartVectorizeDocument(1)
    \/ StartVectorizeEvent(1)
    \/ SaveOk(1)
    \/ Return(1)

VectorizeSpec == Init /\ [][VectorizeNext]_vars

\* search called on a table that does not change.
SearchNext ==
    \/ SearchReturns
    \/ SearchRaises
    \/ SearchDone

SearchSpec == SearchInit /\ [][SearchNext]_vars

\* chunk_text called again and again.
ChunkNext ==
    \/ ChunkTextReturns
    \/ ChunkDone

ChunkSpec == Init /\ [][ChunkNext]_vars

\* Events are created, vectorized and deleted.
EventNext ==
    \/ CreateEvent
    \/ DeleteEvent
    \/ StartVectorizeEvent(1)
    \/ SaveOk(1)
    \/ SaveRaises(1)
    \/ DeleteEmbeddingsForSource(1)
    \/ Return(1)

EventSpec == Init /\ [][EventNext]_vars

(***************************************************************************)
(* Properties of ai_chat (checked under Spec).                             *)
(***************************************************************************)
AllRateLimited ==
    /\ Len(received) = max_retries
    /\ \A k \in 1..max_retries : received[k].kind = "429"

RateLimitedResponse ==
    ErrorResponse(429, RateLimitError, "Rate limit Gemini API raggiunto.")

\* C1: when the provider answers 429 on all three attempts of a turn, exactly
\* three posts are made (no fourth), the turn is over and its result is the
\* rate-limited error (429); a failed turn whose last attempt was not a 429 ends
\* with status 500 and another error message.
C1_RateLimitedAfterThree429 ==
    /\ AllRateLimited =>
          /\ posts = max_retries
          /\ pc \in {"done", "awaiting"}
          /\ response = RateLimitedResponse
    /\ posts <= max_retries
    /\ ( /\ pc = "done"
         /\ posts > 0
         /\ received[Len(received)].kind \notin {"429", "candidates"} ) =>
          /\ response.status = 500
          /\ response.error # RateLimitError

C1_Witness == pc = "done" /\ AllRateLimited

RateLimitedSoFar(n) ==
    /\ Len(received) >= n
    /\ \A k \in 1..n : received[k].kind = "429"

C3_RequestExceptionRetried ==
    /\ \A k \in 1..Len(received) :
          (received[k].kind = "RequestException" /\ k < max_retries) =>
              /\ Len(sleeps) >= k
              /\ sleeps[k] = 2
              /\ (k = Len(received) => pc \in {"sleeping", "calling"})
    /\ ( /\ Len(received) = max_retries
         /\ received[max_retries].kind = "RequestException" ) =>
          /\ posts = max_retries
          /\ Len(sleeps) = max_retries - 1
          /\ pc \in {"done", "awaiting"}
          /\ response.status = 500
          /\ response.error = GenericError
          /\ response.error # RateLimitError

C3_Witness ==
    /\ pc = "done"
    /\ Len(received) = max_retries
    /\ \A k \in 1..max_retries : received[k].kind = "RequestException"

\* C4: every step leaves each field of the draft as it was, except a step that
\* applies an update_event_details action naming the field, which sets it to
\* the action's value: an update is a merge, and a collected field is never
\* cleared by an action that does not name it.
C4_UpdateIsMerge ==
    [][ \A f \in Fields :
          \/ draft'[f] = draft[f]
          \/ /\ pending # <<>>
             /\ Head(pending).name = "update_event_details"
             /\ f \in DOMAIN Head(pending).args
             /\ draft'[f] = << Head(pending).args[f] >> ]_vars

\* The draft holds a title set by one action and an amount set by another.
C4_Witness ==
    /\ draft["title"] = << "Bolletta gas" >>
    /\ draft["amount"] = << 50 >>
    /\ pending = <<>>

HasText(parts) == \E i \in 1..Len(parts) : "text" \in DOMAIN parts[i]

\* C5: when the answer's candidate holds at least one functionCall part and no
\* text part, the text returned by the chat operation is not empty.
C5_ReplyNeverEmpty ==
    ( /\ pc = "done"
      /\ response.status = 200
      /\ response.function_calls # <<>>
      /\ ~HasText(received[Len(received)].parts) ) =>
        response.text # ""

DeclaredCategoryIds == { request.categories[i].id : i \in 1..Len(request.categories) }

InDeclaredDomain(fc) ==
    LET a == fc.args IN
    /\ "category_id" \in DOMAIN a => a["category_id"] \in DeclaredCategoryIds
    /\ "color" \in DOMAIN a => a["color"] \in COLORS
    /\ "recurrence" \in DOMAIN a => a["recurrence"] \in RECURRENCE_OPTIONS
    /\ "reminders" \in DOMAIN a =>
          \A i \in 1..Len(a["reminders"]) : a["reminders"][i] \in REMINDER_OPTIONS

\* C6: every function call returned to the caller has its category_id, color,
\* recurrence and reminders among the values declared for the turn.
C6_ReturnedActionsInDomain ==
    (pc = "done" /\ response.status = 200) =>
        \A i \in 1..Len(response.function_calls) :
            InDeclaredDomain(response.function_calls[i])

(***************************************************************************)
(* Properties of the vector store (checked under StoreSpec and ConcSpec).  *)
(***************************************************************************)
Key(r) == << r.source_type, r.source_id, r.chunk_index >>

\* C7: the table holds at most one row per key
\* (source_type, source_id, chunk_index).
C7_OneRowPerKey ==
    \A r1, r2 \in embeddings : Key(r1) = Key(r2) => r1 = r2

ChunkRows(c) == { << c.base + k - 1, c.chunks[k] >> : k \in 1..Len(c.chunks) }

\* C8: when vectorize_document or vectorize_event has returned, the chunks stored
\* for its source are exactly the chunks of the text it was given: no row of an
\* earlier version of the source is left.
C8_OnlyNewChunksRemain ==
    \A w \in Workers :
        ( /\ worker[w].status = "returned"
          /\ worker[w].op \in {"vectorize_document", "vectorize_event"} ) =>
            { << r.chunk_index, r.text_content >> : r \in RowsOf(worker[w].source_id) }
               = ChunkRows(worker[w])

\* C9: when vectorize_document has raised on a document of several chunks, the
\* table holds none of the rows that call inserted.
C9_NoPartialDocument ==
    \A w \in Workers :
        ( /\ worker[w].status = "raised"
          /\ worker[w].op = "vectorize_document"
          /\ Len(worker[w].chunks) > 1 ) =>
            Ids(embeddings) \cap worker[w].written = {}

\* Two calls that have returned ran at the same time: each began before the
\* other had made its last insert.
Overlapped(c1, c2) ==
    /\ \E x \in c1.written : c2.began < x
    /\ \E x \in c2.written : c1.began < x

\* All inserts of one call come before all inserts of the other.
NotInterleaved(c1, c2) ==
    \/ \A x \in c1.written, y \in c2.written : x < y
    \/ \A x \in c1.written, y \in c2.written : y < x

\* C10: when two vectorize_document calls for the same source that ran at the
\* same time have both returned, their inserts did not interleave and the rows
\* stored for the source are the rows of one of the two calls.
C10_ConcurrentCallsSerialized ==
    \A w1, w2 \in Workers :
        ( /\ w1 # w2
          /\ worker[w1].status = "returned" /\ worker[w2].status = "returned"
          /\ worker[w1].op = "vectorize_document" /\ worker[w2].op = "vectorize_document"
          /\ worker[w1].source_id = worker[w2].source_id
          /\ Overlapped(worker[w1], worker[w2]) ) =>
            /\ NotInterleaved(worker[w1], worker[w2])
            /\ \/ Ids(RowsOf(worker[w1].source_id)) = worker[w1].written
               \/ Ids(RowsOf(worker[w1].source_id)) = worker[w2].written

\* C12: delete_embeddings_for_source(id) removes every row whose source_id is
\* id and no other row, and returns the number of rows it removed; called for an
\* id that has no rows (as a second call right after the first is) it returns 0
\* and leaves the table as it is.
C12_DeleteReturnsRowsRemoved ==
    [][ \A w \in Workers :
          ( /\ worker[w].status = "idle"
            /\ worker'[w].op = "delete_embeddings_for_source" ) =>
              LET s == worker'[w].source_id IN
              /\ worker'[w].status = "returned"
              /\ embeddings' = embeddings \ RowsOf(s)
              /\ { r \in embeddings' : r.source_id = s } = {}
              /\ worker'[w].result = Cardinality(RowsOf(s))
              /\ RowsOf(s) = {} => (worker'[w].result = 0 /\ embeddings' = embeddings) ]_vars

\* A delete has removed the two rows of a source and returned 2.
C12_Witness ==
    /\ worker[1].op = "delete_embeddings_for_source"
    /\ worker[1].status = "returned"
    /\ worker[1].result = 2
    /\ RowsOf(worker[1].source_id) = {}
    /\ embeddings # {}

ChunkIndexes(source_id) == { r.chunk_index : r \in RowsOf(source_id) }

\* C13: when vectorize_document has returned, after any sequence of vectorize
\* operations, the chunk_index values stored for its source are exactly 0..N-1,
\* where N is the number of chunks of the text it was given, and N is what it
\* returned.
C13_ChunkIndexesContiguous ==
    \A w \in Workers :
        ( /\ worker[w].status = "returned"
          /\ worker[w].op = "vectorize_document" ) =>
            /\ worker[w].result = Len(worker[w].chunks)
            /\ ChunkIndexes(worker[w].source_id) = 0..(Len(worker[w].chunks) - 1)

(***************************************************************************)
(* Properties of delete_event (checked under EventSpec).                   *)
(***************************************************************************)
\* C11: when delete_event succeeds for an event that has embedding rows, no row
\* with that source_id is left in the table afterwards (so no later search can
\* return a match for the deleted event).
C11_DeleteEventRemovesEmbeddings ==
    [][ \A e \in EventIds :
          ( /\ events[e] = "live"
            /\ events'[e] = "deleted"
            /\ RowsOf(e) # {} ) =>
              { r \in embeddings' : r.source_id = e } = {} ]_vars

(***************************************************************************)
(* Properties of search (checked under SearchSpec).                        *)
(***************************************************************************)
\* The filtered scan of the call: the rows its SELECT returns.
FilteredScan == Select(embeddings, searching.source_types)

ScoreOf(r) ==
    cosine_similarity(create_embedding(searching.query, "RETRIEVAL_QUERY"),
                      r.embedding_vector)

ReturnedIds == { searching.matches[i].id : i \in 1..Len(searching.matches) }

\* C14: the matches search returns are distinct rows of the filtered scan, each
\* with its similarity to the query as score, in non-increasing score order, and
\* no row of the filtered scan that is left out has a score strictly greater
\* than a returned match.
C14_TopKBestInScoreOrder ==
    searching.status = "returned" =>
        LET m == searching.matches IN
        /\ \A i, j \in 1..Len(m) : i < j => m[i].score >= m[j].score
        /\ ReturnedIds \subseteq Ids(FilteredScan)
        /\ Cardinality(ReturnedIds) = Len(m)
        /\ \A i \in 1..Len(m) : \A r \in FilteredScan : r.id = m[i].id => m[i].score = ScoreOf(r)
        /\ \A r \in FilteredScan :
              r.id \notin ReturnedIds => \A i \in 1..Len(m) : ScoreOf(r) <= m[i].score

\* Two matches of different scores were returned and a row of lower score that
\* passes the filter was left out.
C14_Witness ==
    /\ searching.status = "returned"
    /\ Len(searching.matches) = 2
    /\ searching.matches[1].score > searching.matches[2].score
    /\ searching.source_types # <<>>
    /\ \E r \in FilteredScan :
          r.id \notin ReturnedIds /\ ScoreOf(r) < searching.matches[2].score

InScanOrder(m1, m2) == m1.id < m2.id

\* C16: matches of equal score are returned in the order of the scan, and when
\* rows of equal score straddle the top_k cut the ones returned are the earliest
\* of the scan.
C16_TiesKeepScanOrder ==
    searching.status = "returned" =>
        LET m == searching.matches IN
        /\ \A i, j \in 1..Len(m) :
              (i < j /\ m[i].score = m[j].score) => InScanOrder(m[i], m[j])
        /\ searching.top_k >= 0 =>
              \A r \in FilteredScan : \A i \in 1..Len(m) :
                  (r.id \notin ReturnedIds /\ ScoreOf(r) = m[i].score) => m[i].id < r.id

\* Three rows of equal score, the first two of the scan returned in scan order
\* and the third cut off by top_k = 2.
C16_Witness ==
    /\ searching.status = "returned"
    /\ searching.top_k = 2
    /\ Len(searching.matches) = 2
    /\ Cardinality(FilteredScan) = 3
    /\ \A r \in FilteredScan : ScoreOf(r) = searching.matches[1].score
    /\ \E r \in FilteredScan : r.embedding_vector # <<0, 0>>
    /\ searching.matches[1].id = 1 /\ searching.matches[2].id = 2

\* The stored rows whose source_type is in the set S the call was given.
RowsOfTypes(S) == { r \in embeddings : r.source_type \in S }

\* C17: when search is given a source_types set S, the empty set included, every
\* returned match has its source_type in S, and the rows ranked are exactly the
\* stored rows of a type in S (all of them are returned when top_k is not below
\* their number); only when the filter is omitted are the rows of all types
\* ranked.
C17_FilterIsExact ==
    searching.status = "returned" =>
        LET m == searching.matches
            given == searching.source_types # <<>>
            ranked == IF given THEN RowsOfTypes(Elements(searching.source_types[1]))
                      ELSE embeddings
        IN  /\ ReturnedIds \subseteq Ids(ranked)
            /\ searching.top_k >= Cardinality(ranked) => ReturnedIds = Ids(ranked)

(***************************************************************************)
(* Properties of chunk_text (checked under ChunkSpec).                     *)
(***************************************************************************)
ChunkedWords == split(chunked.text)

\* C18: for any text and any window_size > overlap >= 0, every word of the text
\* occurs in at least one of the chunks chunk_text returns.
C18_NoWordLost ==
    chunked.status = "returned" =>
        \A w \in Elements(ChunkedWords) :
            \E k \in 1..Len(chunked.chunks) : w \in Elements(split(chunked.chunks[k]))

\* The windows of the text: window k starts at word k * (window_size - overlap),
\* k = 0, 1, 2, ..., and spans up to window_size words.
AllWindows ==
    LET n == Len(ChunkedWords)
        stride == chunked.chunk_size - chunked.overlap
        count == Cardinality({ k \in 0..n : k * stride < n })
    IN  [k \in 1..count |->
            SubSeq(ChunkedWords, (k - 1) * stride + 1,
                   Min((k - 1) * stride + chunked.chunk_size, n))]

Joined(windows) == [k \in 1..Len(windows) |-> join(windows[k])]

\* A window cut short by the end of the text and shorter than the floor.
ShortTrailingFragment(window) ==
    Len(window) < chunked.chunk_size /\ Len(window) < MinChunkWords

C20_ShortTextReturnedWhole ==
    (chunked.status = "returned" /\ Len(ChunkedWords) <= chunked.chunk_size) =>
        chunked.chunks = << chunked.text >>

\* A text of exactly window_size words with irregular whitespace came back as it
\* was given.
C20_Witness ==
    /\ chunked.status = "returned"
    /\ Len(ChunkedWords) = chunked.chunk_size
    /\ chunked.text # join(ChunkedWords)
    /\ chunked.chunks = << chunked.text >>

(***************************************************************************)
(* Further properties of ai_chat (checked under Spec).                     *)
(***************************************************************************)
\* C21: a chat request whose message list is empty or missing ends with the
\* validation error (HTTP 400, "No messages provided"), with no context built
\* and no call to the provider.
C21_EmptyMessagesRejected ==
    (pc = "done" /\ request.messages = <<>>) =>
        /\ response.status = 400
        /\ response.error = NoMessagesError
        /\ contents = <<>>
        /\ posts = 0

\* The parts of the first candidate of the answer that ended the turn.
LastParts == received[Len(received)].parts

C23_ChatWritesNothing ==
    [][ (pc \in {"received", "calling", "sleeping"}) =>
          ( /\ embeddings' = embeddings
            /\ nextId' = nextId
            /\ events' = events
            /\ draft' = draft
            /\ request' = request ) ]_vars

\* A turn has ended with a save_and_close_event and an update_event_details that
\* would change the draft, and the draft is still the form state that was sent.
C23_Witness ==
    /\ pc = "done"
    /\ response.status = 200
    /\ \E i, j \in 1..Len(response.function_calls) :
          /\ response.function_calls[i].name = "save_and_close_event"
          /\ response.function_calls[j].name = "update_event_details"
          /\ ApplyAction(draft, response.function_calls[j]) # draft
    /\ draft = request.form_state
    /\ embeddings = {}
    /\ events = [e \in EventIds |-> "absent"]

\* The turn ended because the provider call failed: the last post raised.
EndedInProviderError ==
    /\ pc = "done"
    /\ posts > 0
    /\ received[Len(received)].kind \in {"RequestException", "TypeError"}

\* C24: when a turn ends in a provider error the answer is the generic message
\* alone, the same whatever the text of the error: nothing of the exception
\* reaches the caller.
C24_ProviderErrorIsGeneric ==
    EndedInProviderError => response = ErrorResponse(500, GenericError, None)

\* The provider answers after which the loop goes on: 429 and RequestException.
Retried(outcome) == outcome.kind \in {"429", "RequestException"}

\* The answers of one whole turn: at most three, every one but the last retried,
\* and a retried last one only as the third.
WholeTurn(outcomes) ==
    /\ Len(outcomes) \in 1..max_retries
    /\ \A k \in 1..(Len(outcomes) - 1) : Retried(outcomes[k])
    /\ Retried(outcomes[Len(outcomes)]) => Len(outcomes) = max_retries

\* The result of a turn as a function of the payload and of the provider's
\* answers, and of nothing else.
ResultOf(payload, outcomes) ==
    IF payload.body = "null" THEN ErrorResponse(500, GenericError, "AttributeError")
    ELSE IF payload.messages = <<>> THEN ErrorResponse(400, NoMessagesError, None)
    ELSE LET last == outcomes[Len(outcomes)] IN
         CASE last.kind = "candidates" -> SuccessResponse(last.parts)
           [] last.kind = "no candidates" -> ErrorResponse(500, NoResponseError, None)
           [] last.kind = "429" ->
                ErrorResponse(429, RateLimitError, "Rate limit Gemini API raggiunto.")
           [] OTHER -> ErrorResponse(500, GenericError, last.exc)

\* C25: the result of a call is a function of its payload and of the answers the
\* provider gave to that call: whatever calls were made before, the answers seen
\* are those of this call alone and the same payload with the same answers gets
\* the same result.
C25_ResultDependsOnCallOnly ==
    pc = "done" =>
        /\ response = ResultOf(request, received)
        /\ posts = Len(received)
        /\ IF request.messages = <<>>
           THEN received = <<>> /\ contents = <<>>
           ELSE WholeTurn(received) /\ contents = TransformMessages(request.messages)

\* A second call has ended with a success, after a first call whose actions
\* changed the draft.
C25_Witness ==
    /\ pc = "done"
    /\ turn = 2
    /\ draft # EmptyForm
    /\ response.status = 200
    /\ Len(received) = 1

(***************************************************************************)
(* Properties of create_embedding (checked under SearchSpec).              *)
(***************************************************************************)
SquaredNorm(v) == v[1] * v[1] + v[2] * v[2]

\* Norm 1, in the unit of the model.
IsUnit(v) == SquaredNorm(v) = Scale * Scale

QueryVector == create_embedding(searching.query, "RETRIEVAL_QUERY")

\* C26 (as claimed): every vector create_embedding returns has L2 norm 1: when
\* a search has returned, its query vector and the vector stored with every row
\* it scanned are of norm 1.
C26_EveryVectorIsUnit ==
    searching.status = "returned" =>
        /\ IsUnit(QueryVector)
        /\ \A r \in embeddings : IsUnit(r.embedding_vector)

\* v is what normalizing the provider's vector raw gives: of norm 1 and of the
\* direction of raw, or the zero vector when raw is the zero vector.
NormalizedFrom(raw, v) ==
    IF raw = <<0, 0>>
    THEN v = <<0, 0>>
    ELSE /\ IsUnit(v)
         /\ v[1] * raw[2] = v[2] * raw[1]
         /\ cosine_similarity(v, raw) > 0

\* C26 (amended): every vector create_embedding returns for a non-zero provider
\* vector has L2 norm 1 and the direction of the provider vector, and the zero
\* vector is returned as it is; so the score of a match is the cosine of the
\* angle between the two provider vectors when both are non-zero, and 0 when
\* one is zero.
C26_UnitOrZero ==
    /\ \A r \in embeddings :
          NormalizedFrom(ProviderEmbedding(r.text_content, "RETRIEVAL_DOCUMENT"),
                         r.embedding_vector)
    /\ searching.status = "returned" =>
          LET rawq == ProviderEmbedding(searching.query, "RETRIEVAL_QUERY") IN
          /\ NormalizedFrom(rawq, QueryVector)
          /\ \A i \in 1..Len(searching.matches) :
                LET rawd == ProviderEmbedding(searching.matches[i].text,
                                              "RETRIEVAL_DOCUMENT")
                IN  searching.matches[i].score * Norm(rawq) * Norm(rawd)
                       = Scale * Scale * cosine_similarity(rawq, rawd)

\* A search with a non-zero query vector returned a match whose provider vector
\* is not of norm 1 and a match whose vector is zero.
C26_Witness ==
    /\ searching.status = "returned"
    /\ IsUnit(QueryVector)
    /\ \E i, j \in 1..Len(searching.matches) :
          /\ ProviderEmbedding(searching.matches[i].text, "RETRIEVAL_DOCUMENT") = <<8, 6>>
          /\ searching.matches[i].score = 24
          /\ ProviderEmbedding(searching.matches[j].text, "RETRIEVAL_DOCUMENT") = <<0, 0>>
          /\ searching.matches[j].score = 0

(***************************************************************************)
(* Termination of a turn (checked under LiveSpec).                         *)
(***************************************************************************)
\* C27: every chat turn with a non-empty message list ends; the provider is
\* called only once the context is built, at most three times in the turn, and
\* the turn ends with exactly one answer, of status 200, 429 or 500.
C27_TurnTerminates ==
    /\ [](posts <= max_retries)
    /\ [](posts > 0 =>
            (request.messages # <<>> /\ contents = TransformMessages(request.messages)))
    /\ []((pc = "done" /\ request.messages # <<>>) =>
            (posts >= 1 /\ response.status \in {200, 429, 500}))
    /\ ((pc = "received" /\ request.messages # <<>>) ~> (pc = "done"))

\* A turn has ended after a 429, a transient error and a success.
C27_Witness ==
    /\ pc = "done"
    /\ posts = max_retries
    /\ received[1].kind = "429"
    /\ received[2].kind = "RequestException"
    /\ received[3].kind = "candidates"
    /\ response.status = 200

(***************************************************************************)
(* The turns sent to the provider.                                         *)
(***************************************************************************)
\* Roles by which a caller marks a turn of the assistant.
AssistantRoles == {"ai", "assistant"}

\* C28: the turns posted to the provider are the caller's message list, same
\* length, same order and same text, every assistant turn with role "model"
\* and every user turn with role "user".
C28_TurnsSentWithTheirRole ==
    posts > 0 =>
        /\ Len(contents) = Len(request.messages)
        /\ \A i \in 1..Len(contents) :
              /\ contents[i].parts = << [text |-> request.messages[i].content] >>
              /\ (request.messages[i].role \in AssistantRoles
                    => contents[i].role = "model")
              /\ (request.messages[i].role = "user"
                    => contents[i].role = "user")

(***************************************************************************)
(* The result of a turn and its last attempt.                              *)
(***************************************************************************)
\* C29: the result of a finished turn follows from its last attempt alone: it
\* is the rate-limited error exactly when the third attempt received 429,
\* whatever the first two received, and it is a success exactly when the last
\* attempt received candidates; a success is always the last attempt of its
\* turn, with no post and no sleep after it.
C29_ResultByLastAttempt ==
    /\ \A i \in 1..Len(received) :
          received[i].kind = "candidates" =>
              (i = Len(received) /\ pc \notin {"calling", "sleeping"})
    /\ (pc = "done" /\ posts > 0) =>
          /\ Len(received) = posts
          /\ (response.status = 429 <=>
                 (posts = max_retries /\ received[posts].kind = "429"))
          /\ (response.status = 200 <=> received[posts].kind = "candidates")
          /\ (received[posts].kind = "candidates" => Len(sleeps) = posts - 1)

\* A turn ended rate limited on its third attempt after two transient errors;
\* (the mirror case, 429 twice and then a transient error, ends in 500).
C29_Witness ==
    /\ pc = "done"
    /\ posts = max_retries
    /\ received[1].kind = "RequestException"
    /\ received[2].kind = "RequestException"
    /\ received[3].kind = "429"
    /\ response.status = 429

\* C30: chunk_text returns at least one chunk for every text, for any
\* chunk_size > overlap >= 0.
C30_AtLeastOneChunk ==
    chunked.status = "returned" => Len(chunked.chunks) >= 1

====
